---- MODULE Spec2Model ----
(***************************************************************************)
(* Getravio image processing: the job state machine driven by the Celery   *)
(* task process_image_generation (api/tasks.py) and by the local pipeline  *)
(* task (api/local_tasks.py), the owner-facing job views (api/views.py),   *)
(* the WebSocket gateway (api/consumers.py, api/middleware.py) fed through *)
(* the channel layer groups, and the S3 storage (api/s3_storage.py).       *)
(***************************************************************************)
EXTENDS Integers, Sequences, FiniteSets, TLC

\* ------------------------------------------------------------------ bounds
\* Number of deliveries of one job ID (the first by perform_create, the
\* others duplicates of the at-least-once queue), each run by an executor.
NumExecutors == 2
\* Number of WebSocket connections ever opened.
NumConns == 2
\* Capacity of one channel of the channel layer (messages over it are dropped).
ChannelCapacity == 2
\* Number of events published in the gateway specification.
MaxPublished == 2
\* Length of the longest file name handed to the storage.
MaxNameLen == 3

\* ------------------------------------------------------- program constants
\* @shared_task(bind=True, max_retries=3)
MaxRetries == 3
\* @shared_task(bind=True, max_retries=1) of process_image_generation_local
LocalMaxRetries == 1

Executors == 1..NumExecutors
Conns == 1..NumConns
Users == {"u1", "u2"}
JobId == 1
Views == {"rear", "side"}

\* --------------------------------------------------------------- job rows
NoFile == [job |-> 0, view |-> "none", suffix |-> 0]

SimulationNameWithoutView(job_id, view) == [job |-> job_id, view |-> "rear", suffix |-> 0]
\* The name FieldFile.save is called with: f'simulations/{job_id}_{view}.jpg'.
SimulationName(job_id, view) == [job |-> job_id, view |-> view, suffix |-> 0]

\* The name of the uploaded original image (upload_to='originals/').
OriginalName(job_id) == [job |-> job_id, view |-> "original", suffix |-> 0]

\* Job.REGION_CHOICES, Job.SCENARIO_CHOICES, and the free-text messages used.
RegionChoices == {"gluteal"}
ScenarioChoices == {"projection-level-1", "projection-level-2", "projection-level-3"}
Messages == {"", "note"}

NoJob ==
    [owner |-> "nobody", status |-> "absent", is_favorite |-> FALSE,
     region |-> "none", scenario |-> "none", message |-> "",
     original_image |-> NoFile,
     simulation1_image |-> NoFile, simulation2_image |-> NoFile]

\* serializer.save(user=self.request.user, status='queued'); the model defaults
\* give is_favorite False and empty simulation images. The request asks for
\* region gluteal, scenario projection-level-2 and no message.
NewJob(user) ==
    [owner |-> user, status |-> "queued", is_favorite |-> FALSE,
     region |-> "gluteal", scenario |-> "projection-level-2", message |-> "",
     original_image |-> OriginalName(JobId),
     simulation1_image |-> NoFile, simulation2_image |-> NoFile]

VARIABLES
    jobs,        \* the Job table: job id -> row (NoJob when there is no row)
    blobs,       \* the object store: the set of names that hold a blob
    file_overwrite, \* the storage's overwrite policy (a setting of the deployment)
    s3,          \* the S3Storage instance: its settings, the bucket, the last call
    task,        \* executor -> the state of its delivery of process_image_generation
    trace,       \* executor -> what its delivery has done so far (history)
    backend,     \* the Generation Backend's call history
    fav,         \* the favorite request in flight
    destroy,     \* how the last delete request for the job ended
    tokens,      \* the Token table: the stored token keys
    conn,        \* connection -> consumer state
    groups,      \* channel layer: user -> the channels in group job_updates_<user>
    inbox,       \* channel layer: connection -> messages waiting for its consumer
    sent,        \* connection -> the messages sent down the socket, in order
    published    \* number of events the test publisher has sent

vars == <<jobs, blobs, file_overwrite, s3, task, trace, backend, fav, destroy,
          tokens, conn,
          groups, inbox, sent, published>>

\* ---------------------------------------------------------- channel layer
\* A group_send that ignores the group's name: the message goes to the
\* channel of every member of any group.
group_send_to_every_group(box, user, message) ==
    [c \in Conns |->
        IF (\E u \in DOMAIN groups : c \in groups[u]) /\ Len(box[c]) < ChannelCapacity
        THEN Append(box[c], message)
        ELSE box[c]]

\* channel_layer.group_send(group, message): the message is appended to the
\* channel of every member of the group; a channel at capacity drops it.
group_send(box, user, message) ==
    [c \in Conns |->
        IF c \in groups[user] /\ Len(box[c]) < ChannelCapacity
        THEN Append(box[c], message)
        ELSE box[c]]

\* What a sequence of group_send calls leaves in the channels.
RECURSIVE group_send_all(_, _, _)
group_send_all(box, user, messages) ==
    IF messages = <<>> THEN box
    ELSE group_send_all(group_send(box, user, Head(messages)), user, Tail(messages))

\* send_job_update_via_websocket(user_id, job_data): the message it hands to
\* group_send. job_data is JobSerializer(job).data, with the flag the caller adds.
StatusMessage(job_id, row, flag) ==
    [type |-> "job_status_update", user |-> row.owner, job |-> job_id,
     status |-> row.status, flag |-> flag]

\* send_progress_update(user_id, job_id, progress_data): the message it hands
\* to group_send.
ProgressMessage(job_id, user, view) ==
    [type |-> "job_progress_update", user |-> user, job |-> job_id,
     status |-> "progress", flag |-> view]

send_job_update_via_websocket(user, job_id, row, flag) ==
    group_send_all(inbox, user, <<StatusMessage(job_id, row, flag)>>)

\* ------------------------------------------------------------ object store
\* Storage.get_available_name: the name itself when the storage overwrites or
\* the name is free, otherwise the name with a suffix that makes it unused.
RECURSIVE FreeSuffix(_, _)
FreeSuffix(name, n) ==
    IF [name EXCEPT !.suffix = n] \in blobs THEN FreeSuffix(name, n + 1) ELSE n

get_available_name(name) ==
    IF file_overwrite THEN name
    ELSE [name EXCEPT !.suffix = FreeSuffix(name, 0)]

\* ------------------------------------------------------- S3Storage: keys
\* File names are sequences of characters: a letter, the forward slash and
\* the backslash.
Chars == {"a", "/", "\\"}
Names == UNION {[1..n -> Chars] : n \in 0..MaxNameLen}

\* The location settings: none, 'm', and 'm' written with trailing slashes.
Locations == {<<>>, <<"m">>, <<"m", "/">>, <<"m", "/", "/">>}
\* The default_acl settings: None (PublicMediaStorage, StaticStorage) or an ACL.
NoAcl == "none"
Acls == {NoAcl, "public-read"}

\* name.replace('\\', '/')
replace(name) == [i \in 1..Len(name) |-> IF name[i] = "\\" THEN "/" ELSE name[i]]

lstrip_once(name) == IF name # <<>> /\ Head(name) = "/" THEN Tail(name) ELSE name
\* name.lstrip('/')
RECURSIVE lstrip(_)
lstrip(name) == IF name # <<>> /\ Head(name) = "/" THEN lstrip(Tail(name)) ELSE name

\* location.rstrip('/')
RECURSIVE rstrip(_)
rstrip(location) ==
    IF location # <<>> /\ location[Len(location)] = "/"
    THEN rstrip(SubSeq(location, 1, Len(location) - 1))
    ELSE location

\* S3Storage._get_s3_key
_get_s3_key(name) ==
    LET stripped == lstrip(replace(name)) IN
    IF s3.location # <<>> THEN rstrip(s3.location) \o <<"/">> \o stripped
    ELSE stripped

\* The last call of a storage method: the name and the key it resolved to,
\* whether the key was stored when the call was made, and what the call gave:
\* the exception raised, the name returned (save), the bytes read (open), the
\* answer (exists), the length (size), and for url the expire argument and
\* whether the URL returned is signed and for how long.
NoCall ==
    [op |-> "none", name |-> <<>>, key |-> <<>>, was_stored |-> FALSE,
     error |-> "none", returned |-> <<>>, bytes |-> <<>>, found |-> FALSE,
     length |-> 0, expire |-> <<>>, signed |-> FALSE, expires_in |-> 0]

\* S3Storage(location=..., default_acl=...) on an empty bucket. objects maps
\* the keys of the bucket to what is stored under them.
NewStorage(location, default_acl) ==
    [location |-> location, default_acl |-> default_acl, objects |-> <<>>,
     last |-> NoCall]

\* The variables of the application, which the storage's methods leave alone.
app_vars ==
    <<jobs, blobs, file_overwrite, task, trace, backend, fav, destroy, tokens, conn,
      groups, inbox, sent, published>>

Call(op, name) ==
    [NoCall EXCEPT !.op = op, !.name = name, !.key = _get_s3_key(name),
                   !.was_stored = _get_s3_key(name) \in DOMAIN s3.objects]

\* A caller asks the storage for the key of a name.
ResolveKey(name) ==
    /\ s3' = [s3 EXCEPT !.last = Call("key", name)]
    /\ UNCHANGED <<jobs, blobs, file_overwrite, task, trace, backend, fav, destroy, tokens,
                   conn, groups, inbox, sent, published>>

\* ------------------------------------------------------ S3Storage: objects
\* The names callers hand to the storage: one file name written with and
\* without leading separators, a path written with either separator, and
\* another file name.
StoredNames ==
    {<<"a">>, <<"/", "a">>, <<"\\", "a">>,
     <<"a", "/", "a">>, <<"a", "\\", "a">>, <<"a", "a">>}
\* The byte contents saved.
Contents == {<<7>>, <<7, 9>>}
\* The random suffix Storage.get_alternative_name appends to a taken name.
RandomSuffixes == {"1"}

\* The bucket's answer to HeadObject (and to the HeadObject that
\* download_fileobj starts with): the error code '404' for a missing key.
head_object(key) == IF key \in DOMAIN s3.objects THEN "200" ELSE "404"

ClientErrorBySdkName(code) == IF code = "NoSuchKey" THEN "FileNotFoundError" ELSE "ClientError"
\* except ClientError as e: if e.response['Error']['Code'] == '404':
\*     raise FileNotFoundError(...); raise
ClientError(code) == IF code = "404" THEN "FileNotFoundError" ELSE "ClientError"

PutObjectIfAbsent(objects, key, content, acl) ==
    IF key \in DOMAIN objects THEN objects
    ELSE [k \in DOMAIN objects \cup {key} |->
            IF k = key THEN [body |-> content, acl |-> acl] ELSE objects[k]]
\* upload_fileobj / put_object: the bucket holds the content under the key,
\* with the ACL of extra_args, in place of what it held there.
PutObject(objects, key, content, acl) ==
    [k \in DOMAIN objects \cup {key} |->
        IF k = key THEN [body |-> content, acl |-> acl] ELSE objects[k]]

DeleteObjectAndOthers(objects, key) ==
    IF key \in DOMAIN objects THEN [k \in {} |-> objects[k]] ELSE objects
\* delete_object: the bucket holds nothing under the key; a missing key is no
\* error.
DeleteObject(objects, key) == [k \in DOMAIN objects \ {key} |-> objects[k]]

AvailableNamesOverwriting(name) == {name}
\* Storage.get_available_name of S3Storage: the name itself when the storage
\* overwrites or the name is free, otherwise the name with a random suffix
\* under which nothing is stored.
AvailableNames(name) ==
    IF file_overwrite \/ head_object(_get_s3_key(name)) = "404" THEN {name}
    ELSE {name \o <<r>> : r \in {x \in RandomSuffixes :
                                   head_object(_get_s3_key(name \o <<x>>)) = "404"}}

IsSeparator(c) == c \in {"/", "\\"}
\* validate_file_name(name, allow_relative_path=True) of Storage.save, in the
\* Django versions that have it, refuses a name that is an absolute path.
IsAbsolute(name) == name # <<>> /\ IsSeparator(Head(name))

\* Storage.save(name, content): name = self.get_available_name(name);
\* name = self._save(name, content); the name is validated and returned.
\* _save uploads the content from its start under the key of the name, with
\* the default ACL when one is set, and returns the name.
Save(name, content) ==
    /\ \E available \in AvailableNames(name),
          refused \in (IF IsAbsolute(name) THEN BOOLEAN ELSE {FALSE}) :
        s3' = [s3 EXCEPT
                !.objects = PutObject(@, _get_s3_key(available), content, s3.default_acl),
                !.last = [Call("save", name) EXCEPT
                            !.key = _get_s3_key(available),
                            !.bytes = content,
                            !.error = IF refused THEN "SuspiciousFileOperation" ELSE "none",
                            !.returned = IF refused THEN <<>> ELSE available]]
    /\ UNCHANGED app_vars

\* Storage.open(name) -> _open: download_fileobj into a buffer, wrapped in a
\* File; FileNotFoundError when the bucket answers 404.
Open(name) ==
    /\ LET key == _get_s3_key(name) IN
        s3' = [s3 EXCEPT !.last =
                IF head_object(key) = "200"
                THEN [Call("open", name) EXCEPT !.bytes = s3.objects[key].body]
                ELSE [Call("open", name) EXCEPT !.error = ClientError(head_object(key))]]
    /\ UNCHANGED app_vars

\* S3Storage.delete
Delete(name) ==
    /\ s3' = [s3 EXCEPT !.objects = DeleteObject(@, _get_s3_key(name)),
                        !.last = Call("delete", name)]
    /\ UNCHANGED app_vars

\* S3Storage.exists: True, or False when the bucket answers 404.
Exists(name) ==
    /\ s3' = [s3 EXCEPT !.last =
                [Call("exists", name) EXCEPT
                    !.found = head_object(_get_s3_key(name)) # "404"]]
    /\ UNCHANGED app_vars

\* S3Storage.size: ContentLength, or FileNotFoundError when the bucket
\* answers 404.
Size(name) ==
    /\ LET key == _get_s3_key(name) IN
        s3' = [s3 EXCEPT !.last =
                IF head_object(key) = "200"
                THEN [Call("size", name) EXCEPT !.length = Len(s3.objects[key].body)]
                ELSE [Call("size", name) EXCEPT !.error = ClientError(head_object(key))]]
    /\ UNCHANGED app_vars

\* --------------------------------------------------------- S3Storage: url
\* The expire argument of url: <<>> for None (the default), <<n>> for n
\* seconds; 604800 is what JobSerializer._get_s3_url passes.
NoExpire == <<>>
Expiries == {NoExpire, <<0>>, <<1>>, <<604800>>}

\* if expire:
IsTruthy(expire) == expire # NoExpire /\ expire[1] # 0

\* S3Storage.url: generate_presigned_url(..., ExpiresIn=expire) when expire is
\* truthy, otherwise the public URL of the key (custom domain or the bucket's
\* AWS host).
Url(name, expire) ==
    /\ s3' = [s3 EXCEPT !.last =
                [Call("url", name) EXCEPT
                    !.expire = expire,
                    !.signed = IsTruthy(expire),
                    !.expires_in = IF IsTruthy(expire) THEN expire[1] ELSE 0]]
    /\ UNCHANGED app_vars

\* ---------------------------------------------------------------- executor
IdleTask == [pc |-> "idle", retries |-> 0, job |-> NoJob, result |-> "none"]
\* unannounced: a status or an artifact has been written to the job row and no
\* event published since carries it. order: the publications and backend calls
\* of the current attempt, in order (kept with the backend's call history).
NoTrace ==
    [attempts |-> 0, found |-> "none", wrote |-> FALSE, invoked |-> FALSE,
     stored |-> FALSE, published |-> FALSE, unannounced |-> FALSE,
     order |-> <<>>]

\* The views whose artifact a job row records.
RecordedViews(row) ==
    {v \in Views : (IF v = "rear" THEN row.simulation1_image
                                   ELSE row.simulation2_image) # NoFile}

\* Entries of the record: a call of the backend for a view, and the
\* publication of a snapshot of the job row with its <view>_complete flag.
BackendCall(view) == [event |-> "generate_" \o view, status |-> "none", files |-> {}]
Publication(flag, row) ==
    [event |-> flag, status |-> row.status, files |-> RecordedViews(row)]

\* The record of the attempt, extended by one entry.
Ordered(t, entry) ==
    IF backend.recording THEN Append(trace[t].order, entry) ELSE trace[t].order

\* perform_create: the uploaded original image is stored, the row is saved
\* with status queued and the job ID is handed to
\* process_image_generation.delay, the first delivery.
perform_create(user) ==
    /\ jobs[JobId].status = "absent"
    /\ task[1].pc = "idle"
    /\ LET name == get_available_name(OriginalName(JobId)) IN
        /\ blobs' = blobs \cup {name}
        /\ jobs' = [jobs EXCEPT ![JobId] = [NewJob(user) EXCEPT !.original_image = name]]
    /\ task' = [task EXCEPT ![1] = [IdleTask EXCEPT !.pc = "fetch"]]
    /\ UNCHANGED <<file_overwrite, s3, trace, backend, fav, destroy, tokens, conn,
                   groups, inbox, sent, published>>

\* The queue delivers the same job ID again (at-least-once delivery).
Redeliver(t) ==
    /\ t # 1
    /\ task[t].pc = "idle"
    /\ task[1].pc # "idle"
    /\ task' = [task EXCEPT ![t] = [IdleTask EXCEPT !.pc = "fetch"]]
    /\ UNCHANGED <<jobs, blobs, file_overwrite, s3, trace, backend, fav, destroy, tokens,
                   conn, groups, inbox, sent, published>>

\* job = Job.objects.get(id=job_id); user_id = job.user.id
\* (Job.DoesNotExist: return {'success': False, 'error': 'Job not found'}).
Fetch(t) ==
    /\ task[t].pc = "fetch"
    /\ trace' = [trace EXCEPT ![t].attempts = @ + 1,
                              ![t].found = IF @ = "none" THEN jobs[JobId].status ELSE @,
                              ![t].order = <<>>]
    /\ task' = [task EXCEPT ![t] =
                  IF jobs[JobId].status = "absent"
                  THEN [@ EXCEPT !.pc = "done", !.result = "not_found"]
                  ELSE [@ EXCEPT !.pc = "claim", !.job = jobs[JobId]]]
    /\ UNCHANGED <<jobs, blobs, file_overwrite, s3, backend, fav, destroy, tokens, conn,
                   groups, inbox, sent, published>>

\* job.status = 'processing'; job.save(); send_job_update_via_websocket(...).
\* Model.save() writes every field of the in-memory row.
ClaimedRow(row) == [row EXCEPT !.status = "processing"]

Claim(t) ==
    /\ task[t].pc = "claim"
    /\ LET row == ClaimedRow(task[t].job) IN
        /\ jobs' = [jobs EXCEPT ![JobId] = row]
        /\ task' = [task EXCEPT ![t].pc = "rear", ![t].job = row]
        /\ inbox' = send_job_update_via_websocket(row.owner, JobId, row, "none")
    /\ trace' = [trace EXCEPT ![t].wrote = TRUE, ![t].published = TRUE]
    /\ UNCHANGED <<blobs, file_overwrite, s3, backend, fav, destroy, tokens, conn, groups,
                   sent, published>>

\* The Generation Backend is called once per view; it returns or raises.
BackendOutcomes == {"ok", "raise"}
\* The backend calls progress_callback zero or more times before it returns.
CallbackCounts == {0, 1}

\* The call history is a record of the run, kept by the specifications whose
\* claims count the calls.
BackendAfter(outcome) ==
    IF ~backend.recording THEN backend
    ELSE [backend EXCEPT
            !.calls = @ + 1,
            !.raises = @ + (IF outcome = "raise" THEN 1 ELSE 0),
            !.raise_after_ok = @ \/ (outcome = "raise" /\ backend.raises < backend.calls)]

ProgressMessages(user, view, callbacks) ==
    <<ProgressMessage(JobId, user, view)>> \o
    [i \in 1..callbacks |-> ProgressMessage(JobId, user, view)]

\* send_progress_update(step 0) and ml_service.generate_image(view=...).
Generate(t, view, next) ==
    /\ task[t].pc = view
    /\ \E outcome \in BackendOutcomes, callbacks \in CallbackCounts :
        /\ backend' = BackendAfter(outcome)
        /\ task' = [task EXCEPT ![t].pc = IF outcome = "ok" THEN next ELSE "except"]
        /\ inbox' = group_send_all(inbox, task[t].job.owner,
                        ProgressMessages(task[t].job.owner, view,
                                         IF outcome = "ok" THEN callbacks ELSE 0))
    /\ trace' = [trace EXCEPT ![t].invoked = TRUE, ![t].published = TRUE,
                              ![t].order = Ordered(t, BackendCall(view))]
    /\ UNCHANGED <<jobs, blobs, file_overwrite, s3, fav, destroy, tokens, conn, groups, sent,
                   published>>

GenerateRear(t) == Generate(t, "rear", "save_rear")
GenerateSide(t) == Generate(t, "side", "save_side")

\* job.simulationN_image.save(f'simulations/{job_id}_{view}.jpg', ..., save=True):
\* the storage saves the blob under the available name, the field records
\* that name and the whole row is saved.
SavedRow(row, view, name) ==
    IF view = "rear" THEN [row EXCEPT !.simulation1_image = name]
    ELSE [row EXCEPT !.simulation2_image = name]

SaveView(t, view, next) ==
    /\ task[t].pc = "save_" \o view
    /\ LET name == get_available_name(SimulationName(JobId, view))
           row == SavedRow(task[t].job, view, name) IN
        /\ blobs' = blobs \cup {name}
        /\ jobs' = [jobs EXCEPT ![JobId] = row]
        /\ task' = [task EXCEPT ![t].pc = next, ![t].job = row]
    /\ trace' = [trace EXCEPT ![t].stored = TRUE, ![t].wrote = TRUE,
                              ![t].unannounced = TRUE]
    /\ UNCHANGED <<file_overwrite, s3, backend, fav, destroy, tokens, conn, groups, inbox,
                   sent, published>>

SaveRearUnannounced(t) == SaveView(t, "rear", "side")
SaveRear(t) == SaveView(t, "rear", "publish_rear")
SaveSide(t) == SaveView(t, "side", "complete")

\* job.refresh_from_db(); job_data['<view>_complete'] = True;
\* send_job_update_via_websocket(user_id, job_data).
\* refresh_from_db raises Job.DoesNotExist when the row is gone.
PublishSnapshot(t, at, flag, next) ==
    /\ task[t].pc = at
    /\ IF jobs[JobId].status = "absent"
       THEN /\ task' = [task EXCEPT ![t].pc = "done", ![t].result = "not_found"]
            /\ UNCHANGED <<inbox, trace>>
       ELSE /\ task' = [task EXCEPT ![t].pc = next, ![t].job = jobs[JobId],
                                    ![t].result = IF next = "done" THEN "success" ELSE @]
            /\ inbox' = send_job_update_via_websocket(
                            task[t].job.owner, JobId, jobs[JobId], flag)
            /\ trace' = [trace EXCEPT ![t].published = TRUE,
                                      ![t].unannounced = FALSE,
                                      ![t].order = Ordered(t, Publication(flag, jobs[JobId]))]
    /\ UNCHANGED <<jobs, blobs, file_overwrite, s3, backend, fav, destroy, tokens, conn,
                   groups, sent, published>>

PublishRear(t) == PublishSnapshot(t, "publish_rear", "rear_complete", "side")
PublishFinal(t) == PublishSnapshot(t, "publish_final", "side_complete", "done")

\* job.status = 'completed'; job.save()
CompletedRow(row) == [row EXCEPT !.status = "completed"]

Complete(t) ==
    /\ task[t].pc = "complete"
    /\ LET row == CompletedRow(task[t].job) IN
        /\ jobs' = [jobs EXCEPT ![JobId] = row]
        /\ task' = [task EXCEPT ![t].pc = "publish_final", ![t].job = row]
    /\ trace' = [trace EXCEPT ![t].wrote = TRUE, ![t].unannounced = TRUE]
    /\ UNCHANGED <<blobs, file_overwrite, s3, backend, fav, destroy, tokens, conn, groups,
                   inbox, sent, published>>

\* except Exception: the job is fetched again, marked failed, saved and
\* published, here as one step on the stored row (when the row is gone the
\* inner block's Job.DoesNotExist is logged and swallowed); then
\* the task retries while self.request.retries < self.max_retries and
\* otherwise returns {'success': False, ...}.
ShouldRetryOffByOne(retries) == retries <= MaxRetries
ShouldRetryOnce(retries) == retries < 1
ShouldRetry(retries) == retries < MaxRetries

FailedRow(row) == [row EXCEPT !.status = "failed"]

HandleFailure(t) ==
    /\ task[t].pc = "except"
    /\ IF jobs[JobId].status = "absent"
       THEN UNCHANGED <<jobs, inbox, trace>>
       ELSE LET row == FailedRow(jobs[JobId]) IN
            /\ jobs' = [jobs EXCEPT ![JobId] = row]
            /\ inbox' = send_job_update_via_websocket(row.owner, JobId, row, "none")
            /\ trace' = [trace EXCEPT ![t].wrote = TRUE, ![t].published = TRUE,
                                      ![t].unannounced = FALSE]
    /\ task' = [task EXCEPT ![t] =
                  IF ShouldRetry(task[t].retries)
                  THEN [@ EXCEPT !.pc = "fetch", !.retries = @ + 1]
                  ELSE [@ EXCEPT !.pc = "done", !.result = "failure"]]
    /\ UNCHANGED <<blobs, file_overwrite, s3, backend, fav, destroy, tokens, conn, groups,
                   sent, published>>

\* except Exception, when the inner block's job.save() raises (the database
\* refuses the write): the inner except logs and swallows it, so nothing is
\* written or published, and the task goes on to retry or to return as in
\* HandleFailure.
HandleFailureSaveRaises(t) ==
    /\ task[t].pc = "except"
    /\ jobs[JobId].status # "absent"
    /\ task' = [task EXCEPT ![t] =
                  IF ShouldRetry(task[t].retries)
                  THEN [@ EXCEPT !.pc = "fetch", !.retries = @ + 1]
                  ELSE [@ EXCEPT !.pc = "done", !.result = "failure"]]
    /\ UNCHANGED <<jobs, inbox, trace, blobs, file_overwrite, s3, backend, fav, destroy,
                   tokens, conn, groups, sent, published>>

Execute(t) ==
    \/ Fetch(t)
    \/ Claim(t)
    \/ GenerateRear(t)
    \/ SaveRear(t)
    \/ PublishRear(t)
    \/ GenerateSide(t)
    \/ SaveSide(t)
    \/ Complete(t)
    \/ PublishFinal(t)
    \/ HandleFailure(t)

\* ------------------------------------------ executor of the local pipeline
\* process_image_generation_local (api/local_tasks.py): the worker receives the
\* task for the ID of a stored job.
DeliverLocal(t) ==
    /\ t # 1
    /\ task[t].pc = "idle"
    /\ jobs[JobId].status # "absent"
    /\ task' = [task EXCEPT ![t] = [IdleTask EXCEPT !.pc = "local_fetch"]]
    /\ UNCHANGED <<jobs, blobs, file_overwrite, s3, trace, backend, fav, destroy, tokens,
                   conn, groups, inbox, sent, published>>

\* job = Job.objects.get(id=job_id); except Job.DoesNotExist: raise.
LocalFetch(t) ==
    /\ task[t].pc = "local_fetch"
    /\ trace' = [trace EXCEPT ![t].attempts = @ + 1,
                              ![t].found = IF @ = "none" THEN jobs[JobId].status ELSE @,
                              ![t].order = <<>>]
    /\ task' = [task EXCEPT ![t] =
                  IF jobs[JobId].status = "absent"
                  THEN [@ EXCEPT !.pc = "done", !.result = "raised"]
                  ELSE [@ EXCEPT !.pc = "local_claim", !.job = jobs[JobId]]]
    /\ UNCHANGED <<jobs, blobs, file_overwrite, s3, backend, fav, destroy, tokens, conn,
                   groups, inbox, sent, published>>

\* job.status = 'processing'; job.save(). Nothing is published.
LocalClaim(t) ==
    /\ task[t].pc = "local_claim"
    /\ LET row == ClaimedRow(task[t].job) IN
        /\ jobs' = [jobs EXCEPT ![JobId] = row]
        /\ task' = [task EXCEPT ![t].pc = "local_generate", ![t].job = row]
    /\ trace' = [trace EXCEPT ![t].wrote = TRUE, ![t].unannounced = TRUE]
    /\ UNCHANGED <<blobs, file_overwrite, s3, backend, fav, destroy, tokens, conn, groups,
                   inbox, sent, published>>

\* Image.open(job.original_image) and ml_service.generate_both_views(...):
\* one call of the local pipeline for both views; it returns or raises.
LocalGenerate(t) ==
    /\ task[t].pc = "local_generate"
    /\ \E outcome \in BackendOutcomes :
        /\ backend' = BackendAfter(outcome)
        /\ task' = [task EXCEPT ![t].pc =
                      IF outcome = "ok" THEN "local_store" ELSE "local_except"]
    /\ trace' = [trace EXCEPT ![t].invoked = TRUE]
    /\ UNCHANGED <<jobs, blobs, file_overwrite, s3, fav, destroy, tokens, conn, groups, inbox,
                   sent, published>>

\* The attributes of a Job instance that hold its files (api/models.py).
JobFileFields == {"simulation1_image", "simulation2_image"}

\* job.simulation1_url.save(...), job.simulation2_url.save(...) with save=False,
\* then job.status = 'completed'; job.save(); return {'status': 'success', ...}.
\* Reading a file attribute the Job model does not define raises
\* AttributeError, which the task's except Exception catches.
LocalStore(t) ==
    /\ task[t].pc = "local_store"
    /\ IF {"simulation1_url", "simulation2_url"} \subseteq JobFileFields
       THEN LET rear == get_available_name(SimulationName(JobId, "rear"))
                side == get_available_name(SimulationName(JobId, "side"))
                row == CompletedRow(task[t].job) IN
            /\ blobs' = blobs \cup {rear, side}
            /\ jobs' = [jobs EXCEPT ![JobId] = row]
            /\ task' = [task EXCEPT ![t].pc = "done", ![t].job = row,
                                    ![t].result = "success"]
            /\ trace' = [trace EXCEPT ![t].stored = TRUE, ![t].wrote = TRUE,
                                      ![t].unannounced = TRUE]
       ELSE /\ task' = [task EXCEPT ![t].pc = "local_except"]
            /\ UNCHANGED <<blobs, jobs, trace>>
    /\ UNCHANGED <<file_overwrite, s3, backend, fav, destroy, tokens, conn, groups, inbox,
                   sent, published>>

LocalShouldRetry(retries) == retries < LocalMaxRetries

\* except Exception: job = Job.objects.get(id=job_id); job.status = 'failed';
\* job.error_message = ...; job.save() (a failure of this block is logged and
\* swallowed); nothing is published. Then the task retries while
\* self.request.retries < self.max_retries and otherwise returns
\* {'status': 'failed', ...}.
LocalHandleFailure(t) ==
    /\ task[t].pc = "local_except"
    /\ IF jobs[JobId].status = "absent"
       THEN UNCHANGED <<jobs, trace>>
       ELSE /\ jobs' = [jobs EXCEPT ![JobId] = FailedRow(jobs[JobId])]
            /\ trace' = [trace EXCEPT ![t].wrote = TRUE, ![t].unannounced = TRUE]
    /\ task' = [task EXCEPT ![t] =
                  IF LocalShouldRetry(task[t].retries)
                  THEN [@ EXCEPT !.pc = "local_fetch", !.retries = @ + 1]
                  ELSE [@ EXCEPT !.pc = "done", !.result = "failure"]]
    /\ UNCHANGED <<blobs, file_overwrite, s3, backend, fav, destroy, tokens, conn, groups,
                   inbox, sent, published>>

ExecuteLocal(t) ==
    \/ LocalFetch(t)
    \/ LocalClaim(t)
    \/ LocalGenerate(t)
    \/ LocalStore(t)
    \/ LocalHandleFailure(t)

\* ------------------------------------------------------------ owner views
\* JobViewSet.favorite: job = self.get_object() ...
FavoriteGet ==
    /\ fav.pc = "idle"
    /\ jobs[JobId].status # "absent"
    /\ fav' = [pc |-> "loaded", job |-> jobs[JobId]]
    /\ UNCHANGED <<jobs, blobs, file_overwrite, s3, task, trace, backend, destroy,
                   tokens, conn, groups, inbox, sent, published>>

\* ... job.is_favorite = not job.is_favorite; job.save()
ToggledRow(row) == [row EXCEPT !.is_favorite = ~@]

FavoriteSave ==
    /\ fav.pc = "loaded"
    /\ jobs' = [jobs EXCEPT ![JobId] = ToggledRow(fav.job)]
    /\ fav' = [pc |-> "idle", job |-> NoJob]
    /\ UNCHANGED <<blobs, file_overwrite, s3, task, trace, backend, destroy, tokens,
                   conn, groups, inbox, sent, published>>

\* The fields of JobSerializer a PUT or PATCH may set (the fields that are
\* not in read_only_fields and are no method fields), with the values the
\* requests give them.
WritableValues ==
    [region |-> RegionChoices, scenario |-> ScenarioChoices, message |-> Messages,
     is_favorite |-> BOOLEAN]

\* PATCH /api/jobs/:id -> partial_update: instance = self.get_object() (a job
\* of the requesting user), the serializer validates the data,
\* serializer.save() sets the field on the instance and saves the row. The
\* request is one step: no other write falls between its read and its save.
partial_update(user, field, value) ==
    /\ jobs[JobId].status # "absent"
    /\ jobs[JobId].owner = user
    /\ field \in DOMAIN WritableValues
    /\ value \in WritableValues[field]
    /\ jobs' = [jobs EXCEPT ![JobId] = [@ EXCEPT ![field] = value]]
    /\ UNCHANGED <<blobs, file_overwrite, s3, task, trace, backend, fav, destroy,
                   tokens, conn, groups, inbox, sent, published>>

\* The file attributes perform_destroy reads from the job.
DestroyedFileFields == {"original_image", "simulation_image"}
\* The names the job row records under the given file attributes.
RecordedNames(row, fields) ==
    {row[f] : f \in fields \cap DOMAIN row} \ {NoFile}

\* DELETE /api/jobs/:id -> destroy: instance = self.get_object() (a job of
\* the requesting user), then perform_destroy(instance): the original image is
\* deleted from the storage, then instance.simulation_image is read, then the
\* record is deleted. Reading a file attribute the Job model does not define
\* raises AttributeError, which ends the request before the record is deleted.
perform_destroy(user) ==
    /\ jobs[JobId].status # "absent"
    /\ jobs[JobId].owner = user
    /\ IF DestroyedFileFields \subseteq JobFileFields \cup {"original_image"}
       THEN /\ blobs' = blobs \ RecordedNames(jobs[JobId], DestroyedFileFields)
            /\ jobs' = [jobs EXCEPT ![JobId] = NoJob]
            /\ destroy' = "deleted"
       ELSE /\ blobs' = blobs \ RecordedNames(jobs[JobId], {"original_image"})
            /\ destroy' = "AttributeError"
            /\ UNCHANGED jobs
    /\ UNCHANGED <<file_overwrite, s3, task, trace, backend, fav, tokens, conn,
                   groups, inbox, sent, published>>

\* ----------------------------------------------------------------- gateway
Anonymous == "nobody"
NoKey == "<none>"
\* The token keys issued at registration, and whose they are.
TokenOwner == [t1 |-> "u1", t2 |-> "u2"]
\* What a client may put in the query string: a stored key, an unknown key,
\* an empty token parameter, or no token parameter at all.
QueryTokens == {"t1", "t2", "bad", "", NoKey}

\* logout_view: request.user.auth_token.delete()
logout_view(user) ==
    /\ \E k \in tokens : TokenOwner[k] = user
    /\ tokens' = {k \in tokens : TokenOwner[k] # user}
    /\ UNCHANGED <<jobs, blobs, file_overwrite, s3, task, trace, backend, fav, destroy, conn,
                   groups, inbox, sent, published>>

\* query_params.get('token', [None])[0]: parse_qs drops a blank value, so an
\* empty token parameter gives None like a missing one.
token_key(query) == IF query = "" THEN NoKey ELSE query

get_user_from_token_unchecked(key) ==
    IF key \in DOMAIN TokenOwner THEN TokenOwner[key] ELSE Anonymous
\* get_user_from_token: the user of the stored token, AnonymousUser when
\* Token.DoesNotExist.
get_user_from_token(key) ==
    IF key \in tokens THEN TokenOwner[key] ELSE Anonymous

\* TokenAuthMiddleware.__call__: scope['user']
scope_user(query) ==
    IF token_key(query) # NoKey THEN get_user_from_token(token_key(query))
    ELSE Anonymous

\* connect: isinstance(self.user, AnonymousUser) or not self.user.is_authenticated
is_rejected(user) == user = Anonymous

NewConn ==
    [state |-> "new", user |-> Anonymous, user_channel_name |-> "unset",
     matched |-> FALSE, early |-> FALSE]

ConnectionEstablished ==
    [type |-> "connection_established", user |-> Anonymous, job |-> 0,
     status |-> "none", flag |-> "none"]

\* A client opens a connection: the middleware resolves the user, and connect
\* closes an anonymous connection and otherwise joins the user's group,
\* accepts, and sends connection_established.
Connect(c, query) ==
    /\ conn[c].state = "new"
    /\ LET user == scope_user(query)
           stored == token_key(query) \in tokens
           before == \A t \in Executors : ~trace[t].published IN
        IF is_rejected(user)
        THEN /\ conn' = [conn EXCEPT ![c] =
                    [@ EXCEPT !.state = "rejected", !.user = user, !.matched = stored]]
             /\ UNCHANGED <<groups, sent>>
        ELSE /\ conn' = [conn EXCEPT ![c] =
                    [state |-> "open", user |-> user, user_channel_name |-> user,
                     matched |-> stored, early |-> before]]
             /\ groups' = [groups EXCEPT ![user] = @ \cup {c}]
             /\ sent' = [sent EXCEPT ![c] = Append(@, ConnectionEstablished)]
    /\ UNCHANGED <<jobs, blobs, file_overwrite, s3, task, trace, backend, fav, destroy, tokens,
                   inbox, published>>

\* disconnect: group_discard when the consumer has a user_channel_name.
Disconnect(c) ==
    /\ conn[c].state \in {"open", "rejected"}
    /\ conn' = [conn EXCEPT ![c].state = "closed"]
    /\ groups' = IF conn[c].user_channel_name # "unset"
                 THEN [groups EXCEPT ![conn[c].user_channel_name] = @ \ {c}]
                 ELSE groups
    /\ UNCHANGED <<jobs, blobs, file_overwrite, s3, task, trace, backend, fav, destroy, tokens,
                   inbox, sent, published>>

\* The handlers JobStatusConsumer defines for channel layer messages.
Handlers == {"job_status_update"}

\* job_status_update: the message sent to the client.
job_status_update(event) == [event EXCEPT !.type = "job_update"]

\* The consumer takes the next message of its channel and dispatches it on its
\* type: job_status_update forwards it to the client; a type with no handler
\* raises in the consumer, which ends it without running disconnect.
Dispatch(c) ==
    /\ conn[c].state = "open"
    /\ inbox[c] # <<>>
    /\ inbox' = [inbox EXCEPT ![c] = Tail(@)]
    /\ IF Head(inbox[c]).type \in Handlers
       THEN /\ sent' = [sent EXCEPT ![c] = Append(@, job_status_update(Head(inbox[c])))]
            /\ UNCHANGED conn
       ELSE /\ conn' = [conn EXCEPT ![c].state = "crashed"]
            /\ UNCHANGED sent
    /\ UNCHANGED <<jobs, blobs, file_overwrite, s3, task, trace, backend, fav, destroy, tokens,
                   groups, published>>

\* A caller of send_job_update_via_websocket / send_progress_update, with the
\* user and the payload drawn from small sets.
PublishedStatuses == {"completed"}

PublishStatus(user, status) ==
    /\ published < MaxPublished
    /\ published' = published + 1
    /\ inbox' = send_job_update_via_websocket(
                    user, JobId, [NewJob(user) EXCEPT !.status = status], "none")
    /\ UNCHANGED <<jobs, blobs, file_overwrite, s3, task, trace, backend, fav, destroy, tokens,
                   conn, groups, sent>>

PublishProgress(user) ==
    /\ published < MaxPublished
    /\ published' = published + 1
    /\ inbox' = group_send_all(inbox, user, <<ProgressMessage(JobId, user, "rear")>>)
    /\ UNCHANGED <<jobs, blobs, file_overwrite, s3, task, trace, backend, fav, destroy, tokens,
                   conn, groups, sent>>

\* ------------------------------------------------------------------- specs
InitWith(overwrite_settings, recording) ==
    /\ jobs = [j \in {JobId} |-> NoJob]
    /\ blobs = {}
    /\ file_overwrite \in overwrite_settings
    /\ task = [t \in Executors |-> IdleTask]
    /\ trace = [t \in Executors |-> NoTrace]
    /\ backend = [recording |-> recording, calls |-> 0, raises |-> 0,
                  raise_after_ok |-> FALSE]
    /\ fav = [pc |-> "idle", job |-> NoJob]
    /\ destroy = "none"
    /\ tokens = {"t1", "t2"}
    /\ conn = [c \in Conns |-> NewConn]
    /\ groups = [u \in Users |-> {}]
    /\ inbox = [c \in Conns |-> <<>>]
    /\ sent = [c \in Conns |-> <<>>]
    /\ published = 0

\* The job store under duplicate deliveries: every executor runs the task for
\* the same job ID, on a storage that overwrites (the S3Storage default).
\* PublicMediaStorage: location 'media', default_acl None.
MediaStorage == NewStorage(<<"m">>, NoAcl)

Init == InitWith({TRUE}, FALSE) /\ s3 = MediaStorage

Next ==
    \/ \E u \in Users : perform_create(u)
    \/ \E t \in Executors : Redeliver(t)
    \/ \E t \in Executors : Execute(t)

Spec == Init /\ [][Next]_vars

\* One delivery of the job, run by one executor, with the backend's call
\* history recorded, under either overwrite policy of the storage.
InitRetry == InitWith(BOOLEAN, TRUE) /\ s3 = MediaStorage

NextRetry ==
    \/ \E u \in Users : perform_create(u)
    \/ Execute(1)

SpecRetry == InitRetry /\ [][NextRetry]_vars

\* One delivery of the job racing with the owner's favorite requests.
NextOwner ==
    \/ \E u \in Users : perform_create(u)
    \/ Execute(1)
    \/ FavoriteGet
    \/ FavoriteSave

SpecOwner == Init /\ [][NextOwner]_vars
\* The gateway: connections, the Token table and the channel layer, with
\* events published for either user.
NextGateway ==
    \/ \E u \in Users : logout_view(u)
    \/ \E c \in Conns, q \in QueryTokens : Connect(c, q)
    \/ \E c \in Conns : Disconnect(c)
    \/ \E c \in Conns : Dispatch(c)
    \/ \E u \in Users, s \in PublishedStatuses : PublishStatus(u, s)
    \/ \E u \in Users : PublishProgress(u)

SpecGateway == Init /\ [][NextGateway]_vars

\* One delivery of the job with one client connecting to the gateway.
NextStream ==
    \/ \E u \in Users : perform_create(u)
    \/ Execute(1)
    \/ \E q \in QueryTokens : Connect(1, q)
    \/ Disconnect(1)
    \/ Dispatch(1)

SpecStream == Init /\ [][NextStream]_vars

\* The job's delivery to process_image_generation together with a delivery of
\* the same job ID to process_image_generation_local.
NextLocal ==
    \/ \E u \in Users : perform_create(u)
    \/ Execute(1)
    \/ DeliverLocal(2)
    \/ ExecuteLocal(2)

SpecLocal == Init /\ [][NextLocal]_vars

\* One delivery of the job with delete requests of the users.
NextDestroy ==
    \/ \E u \in Users : perform_create(u)
    \/ Execute(1)
    \/ \E u \in Users : perform_destroy(u)

SpecDestroy == Init /\ [][NextDestroy]_vars

\* One delivery of the job with update requests of the users.
NextUpdate ==
    \/ \E u \in Users : perform_create(u)
    \/ Execute(1)
    \/ \E u \in Users, f \in DOMAIN WritableValues :
            \E v \in WritableValues[f] : partial_update(u, f, v)

SpecUpdate == Init /\ [][NextUpdate]_vars

\* The queue delivers to a worker a job ID that matches no stored job, for
\* process_image_generation (entry "fetch") or for
\* process_image_generation_local (entry "local_fetch").
DeliverUnknown(t, entry) ==
    /\ t # 1
    /\ task[t].pc = "idle"
    /\ jobs[JobId].status = "absent"
    /\ task' = [task EXCEPT ![t] = [IdleTask EXCEPT !.pc = entry]]
    /\ UNCHANGED <<jobs, blobs, file_overwrite, s3, trace, backend, fav, destroy, tokens,
                   conn, groups, inbox, sent, published>>

\* A delivery of an ID that matches no job, to either task, beside the
\* creation of the job and its own delivery.
NextUnknown ==
    \/ \E u \in Users : perform_create(u)
    \/ Execute(1)
    \/ \E entry \in {"fetch", "local_fetch"} : DeliverUnknown(2, entry)
    \/ Execute(2)
    \/ ExecuteLocal(2)

SpecUnknown == Init /\ [][NextUnknown]_vars

\* One delivery of the job on a database whose writes in the failure handler
\* may be refused.
NextFaulty ==
    \/ \E u \in Users : perform_create(u)
    \/ Execute(1)
    \/ HandleFailureSaveRaises(1)

SpecFaulty == InitRetry /\ [][NextFaulty]_vars

\* Key resolution of a storage with any location setting, for every name.
InitKeys ==
    /\ InitWith({TRUE}, FALSE)
    /\ s3 \in {NewStorage(l, NoAcl) : l \in Locations}

NextKeys == \E name \in Names : ResolveKey(name)

SpecKeys == InitKeys /\ [][NextKeys]_vars

\* The methods of the media storage called in any order on one bucket, under
\* either overwrite policy.
InitStore == InitWith(BOOLEAN, FALSE) /\ s3 = MediaStorage

\* The names a caller may hold: the ones it chose and the ones save returned.
KnownNames == StoredNames \cup {n \o <<r>> : n \in StoredNames, r \in RandomSuffixes}

NextStore ==
    \/ \E name \in StoredNames, content \in Contents : Save(name, content)
    \/ \E name \in KnownNames : Open(name)
    \/ \E name \in StoredNames : Delete(name)
    \/ \E name \in StoredNames : Exists(name)
    \/ \E name \in StoredNames : Size(name)

SpecStore == InitStore /\ [][NextStore]_vars

\* URLs asked of a storage with or without a default ACL, for names saved
\* and not saved.
InitUrl ==
    /\ InitWith({TRUE}, FALSE)
    /\ s3 \in {NewStorage(<<"m">>, acl) : acl \in Acls}

NextUrl ==
    \/ \E name \in StoredNames, content \in Contents : Save(name, content)
    \/ \E name \in StoredNames, expire \in Expiries : Url(name, expire)

SpecUrl == InitUrl /\ [][NextUrl]_vars
\* ------------------------------------------------------------------ claims
Status == jobs[JobId].status

\* The transitions of the job state machine: queued -> processing ->
\* {completed | failed}, with completed and failed terminal.
AllowedStep(a, b) ==
    \/ a = b
    \/ a = "absent" /\ b = "queued"
    \/ a = "queued" /\ b = "processing"
    \/ a = "processing" /\ b \in {"completed", "failed"}

\* C1: every write to the Job store moves the status along queued ->
\* processing -> {completed | failed}; no write changes a job whose status is
\* completed or failed.
C1_StatusFollowsStateMachine == [][AllowedStep(Status, Status')]_vars

\* An executor that has claimed the job and has not yet finished its attempt.
Processing(t) ==
    task[t].pc \in {"rear", "save_rear", "publish_rear", "side", "save_side",
                    "complete", "publish_final", "except"}

\* C2: of the executors running concurrently for the same job ID, at most one
\* has won the claim and is processing the job.
C2_ClaimIsExclusive == Cardinality({t \in Executors : Processing(t)}) <= 1

\* C3: a delivery that finds the job completed does nothing: it writes no job
\* row, invokes no backend, stores no artifact and publishes no event.
C3_RedeliveryAfterCompletedIsNoOp ==
    \A t \in Executors :
        trace[t].found = "completed" =>
            /\ ~trace[t].wrote
            /\ ~trace[t].invoked
            /\ ~trace[t].stored
            /\ ~trace[t].published

\* C6: once the job has left queued, no operation sets its status back to
\* queued.
C6_NeverBackToQueued ==
    [][Status \notin {"absent", "queued"} => Status' # "queued"]_vars
\* The single delivery has returned.
Done == task[1].pc = "done"
\* Every call of the backend so far has raised.
BackendAlwaysRaised == backend.raises = backend.calls
\* The backend raised on its first two calls and on no later call.
BackendRaisedFirstTwo == backend.raises = 2 /\ ~backend.raise_after_ok

Artifacts(row) == {row.simulation1_image, row.simulation2_image} \ {NoFile}
\* The job's first attempt has returned success.
FirstAttemptSucceeded ==
    Done /\ task[1].result = "success" /\ trace[1].attempts = 1

IsStatus(log, i, status) ==
    log[i].type = "job_update" /\ log[i].job = JobId /\ log[i].status = status

\* A processing update, later a completed update, and no update of the job
\* after the completed one.
ProcessingThenCompleted(log) ==
    \E i, k \in 1..Len(log) :
        /\ i < k
        /\ IsStatus(log, i, "processing")
        /\ IsStatus(log, k, "completed")
        /\ \A m \in (k + 1)..Len(log) : log[m].job # JobId

\* A client of the job's owner that subscribed before the execution published
\* anything and never disconnected, with nothing left to dispatch to it.
SubscribedThroughout(c) ==
    /\ conn[c].early
    /\ conn[c].user = jobs[JobId].owner
    /\ conn[c].state \in {"open", "crashed"}
    /\ conn[c].state = "open" => inbox[c] = <<>>

\* C7: when the job's single execution succeeds, a client subscribed for the
\* whole execution has received a processing update and later a completed
\* update, and no update of the job after it.
C7_ProcessingThenCompleted ==
    \A c \in Conns :
        (FirstAttemptSucceeded /\ SubscribedThroughout(c)) =>
            ProcessingThenCompleted(sent[c])

\* The groups a connection's channel is in.
GroupsOf(c) == {u \in Users : c \in groups[u]}

\* C9: a connection whose token is missing or matches no stored token is
\* rejected: it is in no group, and nothing (no connection_established) is
\* sent to it.
C9_InvalidTokenRejected ==
    \A c \in Conns :
        (conn[c].state # "new" /\ ~conn[c].matched) =>
            /\ conn[c].state \in {"rejected", "closed"}
            /\ GroupsOf(c) = {}
            /\ sent[c] = <<>>
            /\ inbox[c] = <<>>

C9_Witness ==
    \E c \in Conns :
        /\ conn[c].state = "rejected"
        /\ ~conn[c].matched
        /\ tokens # {"t1", "t2"}
        /\ published > 0

\* C10: an open connection is in exactly one group, its user's, and a
\* connection that is no longer open is in none.
C10_OneGroupWhileOpen ==
    \A c \in Conns :
        /\ conn[c].state = "open" => GroupsOf(c) = {conn[c].user}
        /\ conn[c].state \in {"rejected", "closed", "crashed"} => GroupsOf(c) = {}

\* C11: when a delivery returns, every status and every artifact it wrote to
\* the job row has been followed by the publication of an event that carries
\* it: no executor path writes without publishing.
C11_EveryWritePublished ==
    \A t \in Executors : task[t].pc = "done" => ~trace[t].unannounced

\* The entries of the attempt's record that announce the rear artifact.
AnnouncesRear(entry) == entry.event = "rear_complete" /\ "rear" \in entry.files
\* The start of the side view's generation, and the event that carries the
\* side artifact and the completed status.
AfterRear(entry) ==
    \/ entry.event = "generate_side"
    \/ entry.status = "completed" /\ "side" \in entry.files

\* C12: within an attempt, the snapshot announcing the rear artifact is
\* published before the side view's generation starts and before the event
\* that carries the side artifact and the completed status.
C12_RearAnnouncedBeforeSide ==
    LET log == trace[1].order IN
    /\ \A k \in 1..Len(log) :
            AfterRear(log[k]) => \E i \in 1..(k - 1) : AnnouncesRear(log[i])
    /\ FirstAttemptSucceeded =>
            \E k \in 1..Len(log) : log[k].status = "completed" /\ "side" \in log[k].files

C12_Witness ==
    /\ Done
    /\ task[1].result = "success"
    /\ Len(trace[1].order) = 4
    /\ trace[1].order[4].event = "side_complete"

\* The type discriminators of the messages a client is sent.
WireTypes == {"connection_established", "job_status_update", "job_progress_update"}

\* C13: every event dispatched to an open connection is forwarded to the
\* client and leaves the connection open, and every message a client is sent
\* carries its event's type discriminator, job_status_update or
\* job_progress_update.
C13_EventsForwarded ==
    \A c \in Conns :
        /\ conn[c].state # "crashed"
        /\ \A i \in 1..Len(sent[c]) : sent[c][i].type \in WireTypes

RECURSIVE WithoutLeadingSeparators(_)
WithoutLeadingSeparators(name) ==
    IF name # <<>> /\ IsSeparator(Head(name))
    THEN WithoutLeadingSeparators(Tail(name))
    ELSE name

\* Two names that differ only in the style of their separators or in the
\* number of their leading separators.
SameLogicalName(a, b) ==
    LET x == WithoutLeadingSeparators(a)
        y == WithoutLeadingSeparators(b) IN
    /\ Len(x) = Len(y)
    /\ \A i \in 1..Len(x) : x[i] = y[i] \/ (IsSeparator(x[i]) /\ IsSeparator(y[i]))

\* The key is the location without its trailing slashes, one slash, and a
\* rest that starts with no separator.
JoinedByOneSlash(location, key) ==
    \E p \in 1..Len(key) :
        /\ key[p] = "/"
        /\ p > 1 /\ key[p - 1] # "/"
        /\ SubSeq(key, 1, p - 1) = SubSeq(location, 1, p - 1)
        /\ \A i \in p..Len(location) : location[i] = "/"
        /\ p < Len(key) => ~IsSeparator(key[p + 1])

\* C14: two names that differ only in separator style or in the number of
\* leading separators resolve to the same key, and a configured location is
\* joined to the name by exactly one slash.
C14_SameKeyForSameLogicalName ==
    [][(s3.last.op = "key" /\ s3'.last.op = "key") =>
          /\ SameLogicalName(s3.last.name, s3'.last.name) => s3'.last.key = s3.last.key
          /\ s3.location # <<>> => JoinedByOneSlash(s3.location, s3'.last.key)]_vars

C14_Witness ==
    /\ s3.location = <<"m", "/">>
    /\ s3.last.name = <<"\\", "/", "a">>
    /\ s3.last.key = <<"m", "/", "a">>

\* C15: opening the name a save returned, with no other call in between,
\* gives exactly the bytes that were saved.
C15_SaveThenOpen ==
    [][(/\ s3.last.op = "save"
        /\ s3.last.error = "none"
        /\ s3'.last.op = "open"
        /\ s3'.last.name = s3.last.returned) =>
            /\ s3'.last.error = "none"
            /\ s3'.last.bytes = s3.last.bytes]_vars

C15_Witness ==
    /\ s3.last.op = "open"
    /\ s3.last.error = "none"
    /\ s3.last.name = <<"\\", "a", "1">>
    /\ s3.last.bytes = <<7, 9>>
    /\ s3.objects[s3.last.key].body = <<7, 9>>
    /\ Cardinality(DOMAIN s3.objects) > 1

\* C16: delete raises nothing, whether or not the name is stored, removes
\* the name's key and no other, and exists of the name right after is false.
C16_DeleteIsIdempotent ==
    [][/\ s3'.last.op = "delete" =>
            /\ s3'.last.error = "none"
            /\ DOMAIN s3'.objects = DOMAIN s3.objects \ {s3'.last.key}
            /\ \A k \in DOMAIN s3'.objects : s3'.objects[k] = s3.objects[k]
       /\ (s3.last.op = "delete" /\ s3'.last.op = "exists"
                /\ s3'.last.name = s3.last.name) =>
            (s3'.last.error = "none" /\ ~s3'.last.found)]_vars

C16_Witness ==
    /\ s3.last.op = "delete"
    /\ ~s3.last.was_stored
    /\ s3.last.error = "none"
    /\ Cardinality(DOMAIN s3.objects) > 1

\* C17: open and size of a name that is not stored raise FileNotFoundError,
\* exists of it answers false without raising, and none of them changes the
\* bucket.
C17_MissingNameIsNotFound ==
    [][(s3'.last.op \in {"open", "size", "exists"} /\ ~s3'.last.was_stored) =>
            /\ s3'.objects = s3.objects
            /\ s3'.last.op \in {"open", "size"} => s3'.last.error = "FileNotFoundError"
            /\ s3'.last.op = "exists" => (s3'.last.error = "none" /\ ~s3'.last.found)]_vars

C17_Witness ==
    /\ s3.last.op = "size"
    /\ ~s3.last.was_stored
    /\ s3.last.error = "FileNotFoundError"
    /\ s3.objects # <<>>

\* C18: url returns a signed URL whenever an expire argument is given,
\* whatever its value, 0 included, and the unsigned public URL only when none
\* is given.
C18_SignedWheneverExpiryGiven ==
    s3.last.op = "url" => (s3.last.signed <=> s3.last.expire # NoExpire)

\* The blob under a key has been marked public: it is stored with a public
\* ACL.
MarkedPublic(key) ==
    key \in DOMAIN s3.objects /\ s3.objects[key].acl = "public-read"

\* C19: url returns an unsigned URL only for a blob that has been marked
\* public.
C19_UnsignedOnlyForPublic ==
    (s3.last.op = "url" /\ ~s3.last.signed) => MarkedPublic(s3.last.key)

\* C21: with file_overwrite true a save keeps the given name: it replaces
\* what the store held under the name's key and adds no other blob; with
\* file_overwrite false a save goes to a key the store did not hold, so every
\* blob already stored is left as it was.
C21_OverwritePolicy ==
    [][s3'.last.op = "save" =>
         /\ s3'.last.key \in DOMAIN s3'.objects
         /\ s3'.objects[s3'.last.key].body = s3'.last.bytes
         /\ DOMAIN s3'.objects = DOMAIN s3.objects \cup {s3'.last.key}
         /\ \A k \in DOMAIN s3.objects \ {s3'.last.key} : s3'.objects[k] = s3.objects[k]
         /\ file_overwrite =>
                /\ s3'.last.key = _get_s3_key(s3'.last.name)
                /\ s3'.last.error = "none" => s3'.last.returned = s3'.last.name
         /\ ~file_overwrite =>
                /\ s3'.last.key \notin DOMAIN s3.objects
                /\ \A k \in DOMAIN s3.objects : s3'.objects[k] = s3.objects[k]]_vars

C21_Witness ==
    /\ s3.last.op = "save"
    /\ ~file_overwrite
    /\ s3.last.was_stored
    /\ s3.last.returned # s3.last.name
    /\ s3.last.error = "none"
    /\ Cardinality(DOMAIN s3.objects) > 1

\* The blobs of the object store that belong to the job.
BlobsOfJob == {b \in blobs : b.job = JobId}

\* C22: after a delete request for the job, the job record does not exist
\* and none of its blobs, the original image and the simulation images, is in
\* the object store.
C22_DestroyRemovesJobAndBlobs ==
    [][destroy' # destroy => (jobs'[JobId].status = "absent" /\ BlobsOfJob' = {})]_vars

\* The parameters a job is created with.
Parameters(row) == <<row.owner, row.region, row.scenario, row.message>>

\* C23: once the job is created, no write changes its owner, region,
\* scenario or message.
C23_ParametersImmutable ==
    [][jobs[JobId].status # "absent" =>
            Parameters(jobs'[JobId]) = Parameters(jobs[JobId])]_vars

\* C24: a write that marks the job completed or failed is applied only when
\* the job's status is processing; on any other status the status stays as it
\* was.
C24_FinishOnlyFromProcessing ==
    [][(Status' \in {"completed", "failed"} /\ Status' # Status) =>
            Status = "processing"]_vars

\* C25: a job whose status is completed records the artifact of every view,
\* rear and side, and each recorded artifact is in the object store.
C25_CompletedHasArtifacts ==
    Status = "completed" =>
        /\ RecordedViews(jobs[JobId]) = Views
        /\ Artifacts(jobs[JobId]) \subseteq blobs

\* The error detail stored on a job row: the value of its error_message
\* column, or nothing when the row has no such column.
ErrorDetail(row) ==
    IF "error_message" \in DOMAIN row THEN row.error_message ELSE ""

\* C26: a job whose status is failed carries an error detail on its record,
\* and a job whose status is not failed carries none.
C26_FailedHasErrorDetail ==
    /\ Status = "failed" => ErrorDetail(jobs[JobId]) # ""
    /\ Status # "failed" => ErrorDetail(jobs[JobId]) = ""

\* C27: an executor that finds no job for the delivered ID ends that message
\* cleanly: it returns without raising, after one attempt and with no retry,
\* having written nothing to the job row or the object store and published
\* nothing.
C27_UnknownIdExitsCleanly ==
    \A t \in Executors :
        (trace[t].found = "absent" /\ task[t].pc = "done") =>
            /\ task[t].result = "not_found"
            /\ task[t].retries = 0
            /\ trace[t].attempts = 1
            /\ ~trace[t].wrote /\ ~trace[t].stored /\ ~trace[t].published

\* The status and the recorded artifacts of a job row.
StatusAndArtifacts(row) == <<row.status, row.simulation1_image, row.simulation2_image>>

\* C28: the save of a favorite request leaves the job's status and recorded
\* artifacts as they were, and a step of the executor leaves the job's
\* is_favorite as it was.
C28_FavoriteAndExecutorIndependent ==
    [][/\ fav.pc = "loaded" /\ fav'.pc = "idle" =>
            StatusAndArtifacts(jobs'[JobId]) = StatusAndArtifacts(jobs[JobId])
       /\ (task' # task /\ jobs[JobId].status # "absent") =>
            jobs'[JobId].is_favorite = jobs[JobId].is_favorite]_vars


\* The events in a sequence of messages: all but the connection's greeting.
EventsIn(messages) ==
    {messages[i] : i \in {j \in 1..Len(messages) :
                            messages[j].type # "connection_established"}}

\* C29: every event waiting in a connection's channel or sent down its
\* socket was published for the user the connection is authenticated as.
C29_EventsIsolatedPerUser ==
    \A c \in Conns :
        \A event \in EventsIn(inbox[c]) \cup EventsIn(sent[c]) :
            event.user = conn[c].user

\* Two users are connected, an event of one has been forwarded to that
\* user's connection and another one waits in its channel.
C29_Witness ==
    \E c1, c2 \in Conns :
        /\ conn[c1].state = "open" /\ conn[c2].state = "open"
        /\ conn[c1].user # conn[c2].user
        /\ EventsIn(sent[c1]) # {}
        /\ inbox[c1] # <<>>
        /\ EventsIn(inbox[c2]) \cup EventsIn(sent[c2]) = {}

\* Every delivery that was made has returned, and at least one was made.
AllDeliveriesReturned ==
    /\ \E t \in Executors : task[t].pc = "done"
    /\ \A t \in Executors : task[t].pc \in {"idle", "done"}

\* C30: once the last attempt of every delivery of an existing job has
\* returned, the job is completed or failed, never queued or processing.
C30_FinishedAfterLastAttempt ==
    (AllDeliveriesReturned /\ Status # "absent") =>
        Status \in {"completed", "failed"}
====
